---------------------------- MODULE Spec2Model ----------------------------
(***************************************************************************)
(* A model of the task manager (App.tsx, components/TodoList.tsx,          *)
(* components/TodoItem.tsx, components/AddTodoForm.tsx).                    *)
(*                                                                         *)
(* A text is a sequence of one-character strings, so that tag extraction,  *)
(* trimming and the CSV codec are computed character by character as the   *)
(* code computes them.                                                     *)
(***************************************************************************)
EXTENDS Naturals, Integers, Sequences, FiniteSets, TLC

VARIABLES
    pc,             \* "boot" before App's first render, then "ready"
    storage,        \* localStorage['todos']
    todos,          \* the App's todos state
    nextId,         \* the next value crypto.randomUUID() hands out
    now,            \* the clock Date.now() reads
    activeTagFilter,\* the App's activeTagFilter state (NoTag: null)
    reads,          \* FileReader reads in flight: forceRecurringTemplate of each
    download        \* the text of the last exported file (<<>>: none yet)

vars == <<pc, storage, todos, nextId, now, activeTagFilter, reads, download>>

-----------------------------------------------------------------------------
(* Bounds of the model *)

\* crypto.randomUUID() is modelled as a source of fresh ids 1, 2, ...: MaxIds
\* bounds the ids ever handed out, those of a stored snapshot included.
MaxIds == 3
\* Date.now() returns a value of now..MaxTime.
MaxTime == 2
\* The file reads in flight at once.
MaxReads == 1
\* The file reads in flight at once in the specification of pending reads.
MaxPending == 2
\* The tasks of a collection the codec specification starts from.
MaxCodecLen == 2

-----------------------------------------------------------------------------
(* Characters and texts *)

Range(s) == {s[i] : i \in DOMAIN s}

WordChars ==
    {"a","b","c","d","e","f","g","h","i","j","k","l","m",
     "n","o","p","q","r","s","t","u","v","w","x","y","z",
     "A","B","C","D","E","F","G","H","I","J","K","L","M",
     "N","O","P","Q","R","S","T","U","V","W","X","Y","Z",
     "0","1","2","3","4","5","6","7","8","9","_"}

\* The texts the model's users type and the model's files carry.
TxtPlain == <<"a">>
TxtTagYX == <<"#","y"," ","#","x","#","y">>
Texts == {TxtPlain, TxtTagYX}

\* The first index at or after i that holds no word character.
RECURSIVE WordRunEnd(_, _)
WordRunEnd(text, i) ==
    IF i <= Len(text) /\ text[i] \in WordChars
    THEN WordRunEnd(text, i + 1)
    ELSE i

\* for (const match of text.matchAll(/#([a-zA-Z0-9_]+)/g)) tags.add(match[1])
RECURSIVE ScanTags(_, _, _)
ScanTags(text, i, tags) ==
    IF i > Len(text) THEN tags
    ELSE IF text[i] = "#" /\ WordRunEnd(text, i + 1) > i + 1
         THEN LET e == WordRunEnd(text, i + 1)
                  tag == SubSeq(text, i + 1, e - 1)
              IN ScanTags(text, e,
                          IF tag \in Range(tags) THEN tags ELSE Append(tags, tag))
         ELSE ScanTags(text, i + 1, tags)

\* Variant of extractTags that finds no tag.
extractTagsNoTags(text) == <<>>

extractTags(text) == ScanTags(text, 1, <<>>)

-----------------------------------------------------------------------------
(* The task store: each operation is the updater handed to setTodos *)

IdsOf(list) == {list[i].id : i \in DOMAIN list}

IsTemplate(todo) == todo.isRecurring /\ ~todo.isForToday

\* prevTodos.find(todo => todo.id === id): the index of the first match, 0 if none
FindIndex(list, id) ==
    IF id \in IdsOf(list)
    THEN CHOOSE i \in DOMAIN list :
            list[i].id = id /\ \A j \in 1..(i - 1) : list[j].id # id
    ELSE 0

\* Variant of NewTodo without tags.
NewTodoNoTags(id, text, createdAt) ==
    [id |-> id, text |-> text, completed |-> FALSE, createdAt |-> createdAt,
     isForToday |-> FALSE, isRecurring |-> FALSE, tags |-> <<>>]

NewTodo(id, text, createdAt) ==
    [id |-> id, text |-> text, completed |-> FALSE, createdAt |-> createdAt,
     isForToday |-> FALSE, isRecurring |-> FALSE, tags |-> extractTags(text)]

\* Variant of addTodo that appends.
addTodoAtEnd(prev, newTodo) == Append(prev, newTodo)

addTodo(prev, newTodo) == <<newTodo>> \o prev

\* Variant of toggleComplete without the Template branch.
toggleCompleteNoReset(prev, id) ==
    [i \in DOMAIN prev |->
        IF prev[i].id = id
        THEN [prev[i] EXCEPT !.completed = ~prev[i].completed]
        ELSE prev[i]]

toggleComplete(prev, id) ==
    [i \in DOMAIN prev |->
        IF prev[i].id = id
        THEN IF prev[i].isRecurring /\ ~prev[i].isForToday
             THEN [prev[i] EXCEPT !.completed = FALSE, !.isForToday = FALSE]
             ELSE [prev[i] EXCEPT !.completed = ~prev[i].completed]
        ELSE prev[i]]

\* Variant of deleteTodo that drops the head when no task carries id.
deleteTodoOrHead(prev, id) ==
    IF id \in IdsOf(prev) THEN SelectSeq(prev, LAMBDA todo : todo.id # id)
    ELSE SubSeq(prev, 2, Len(prev))

deleteTodo(prev, id) == SelectSeq(prev, LAMBDA todo : todo.id # id)

NewInstanceForToday(template, id, createdAt) ==
    [id |-> id, text |-> template.text, completed |-> FALSE,
     createdAt |-> createdAt, isForToday |-> TRUE, isRecurring |-> FALSE,
     tags |-> template.tags]

\* Variant of toggleIsForToday without the Template branch.
toggleIsForTodayInPlace(prev, id, newId, createdAt) ==
    [i \in DOMAIN prev |->
        IF prev[i].id = id
        THEN [prev[i] EXCEPT !.isForToday = ~prev[i].isForToday]
        ELSE prev[i]]

toggleIsForToday(prev, id, newId, createdAt) ==
    LET k == FindIndex(prev, id)
    IN  IF k = 0 THEN prev
        ELSE IF prev[k].isRecurring /\ ~prev[k].isForToday
             THEN Append(prev, NewInstanceForToday(prev[k], newId, createdAt))
             ELSE [i \in DOMAIN prev |->
                      IF prev[i].id = id
                      THEN [prev[i] EXCEPT !.isForToday = ~prev[i].isForToday]
                      ELSE prev[i]]

\* Variant of editTodo that also clears completed.
editTodoClearsCompleted(prev, id, newText) ==
    [i \in DOMAIN prev |->
        IF prev[i].id = id
        THEN [prev[i] EXCEPT !.text = newText, !.tags = extractTags(newText),
                             !.completed = FALSE]
        ELSE prev[i]]

\* Variant of editTodo that keeps the tags.
editTodoKeepTags(prev, id, newText) ==
    [i \in DOMAIN prev |->
        IF prev[i].id = id
        THEN [prev[i] EXCEPT !.text = newText]
        ELSE prev[i]]

editTodo(prev, id, newText) ==
    [i \in DOMAIN prev |->
        IF prev[i].id = id
        THEN [prev[i] EXCEPT !.text = newText, !.tags = extractTags(newText)]
        ELSE prev[i]]

\* Variant of toggleIsRecurring that keeps isForToday.
toggleIsRecurringKeepToday(prev, id) ==
    [i \in DOMAIN prev |->
        IF prev[i].id = id
        THEN [prev[i] EXCEPT !.isRecurring = ~prev[i].isRecurring]
        ELSE prev[i]]

toggleIsRecurring(prev, id) ==
    [i \in DOMAIN prev |->
        IF prev[i].id = id
        THEN LET newIsRecurring == ~prev[i].isRecurring
             IN  [prev[i] EXCEPT
                    !.isRecurring = newIsRecurring,
                    !.isForToday = IF newIsRecurring THEN FALSE
                                   ELSE prev[i].isForToday]
        ELSE prev[i]]

-----------------------------------------------------------------------------
(* Strings: String.prototype.trim, toLowerCase, split, substring, parseInt *)

Whitespace == {" ", "\t", "\n", "\r"}

RECURSIVE TrimLeft(_)
TrimLeft(s) ==
    IF s # <<>> /\ Head(s) \in Whitespace THEN TrimLeft(Tail(s)) ELSE s

RECURSIVE TrimRight(_)
TrimRight(s) ==
    IF s # <<>> /\ s[Len(s)] \in Whitespace
    THEN TrimRight(SubSeq(s, 1, Len(s) - 1))
    ELSE s

Trim(s) == TrimRight(TrimLeft(s))

UpperLetters ==
    <<"A","B","C","D","E","F","G","H","I","J","K","L","M",
      "N","O","P","Q","R","S","T","U","V","W","X","Y","Z">>

LowerLetters ==
    <<"a","b","c","d","e","f","g","h","i","j","k","l","m",
      "n","o","p","q","r","s","t","u","v","w","x","y","z">>

LowerChar(c) ==
    IF c \in Range(UpperLetters)
    THEN LowerLetters[CHOOSE k \in DOMAIN UpperLetters : UpperLetters[k] = c]
    ELSE c

ToLowerCase(s) == [i \in DOMAIN s |-> LowerChar(s[i])]

\* The pieces of s between the separator positions seps, from index from on.
RECURSIVE SplitAt(_, _, _)
SplitAt(s, seps, from) ==
    LET later == {k \in seps : k >= from}
    IN  IF later = {}
        THEN <<SubSeq(s, from, Len(s))>>
        ELSE LET k == CHOOSE k \in later : \A j \in later : k <= j
             IN  <<SubSeq(s, from, k - 1)>> \o SplitAt(s, seps, k + 1)

SplitChar(s, c) == SplitAt(s, {k \in DOMAIN s : s[k] = c}, 1)

\* text.split(/\r?\n/): a "\r" right before the "\n" belongs to the separator.
SplitLines(text) ==
    LET pieces == SplitChar(text, "\n")
    IN  [i \in DOMAIN pieces |->
            IF i < Len(pieces) /\ pieces[i] # <<>>
               /\ pieces[i][Len(pieces[i])] = "\r"
            THEN SubSeq(pieces[i], 1, Len(pieces[i]) - 1)
            ELSE pieces[i]]

QuoteCount(s, from) == Cardinality({k \in from..Len(s) : s[k] = "\""})

\* line.split(/,(?=(?:(?:[^"]*"){2})*[^"]*$)/): the commas followed by an even
\* number of double quotes.
SplitRow(line) ==
    SplitAt(line,
            {k \in DOMAIN line : line[k] = "," /\ QuoteCount(line, k + 1) % 2 = 0},
            1)

\* s.replace(/""/g, '"')
RECURSIVE UndoubleQuotes(_)
UndoubleQuotes(s) ==
    IF Len(s) >= 2 /\ s[1] = "\"" /\ s[2] = "\""
    THEN <<"\"">> \o UndoubleQuotes(SubSeq(s, 3, Len(s)))
    ELSE IF s = <<>> THEN <<>>
         ELSE <<Head(s)>> \o UndoubleQuotes(Tail(s))

\* value.trim(), then the surrounding quotes removed; substring(1, length - 1)
\* of a one-character string swaps its arguments and returns the string.
CleanValue(value) ==
    LET cleanValue == Trim(value)
    IN  IF cleanValue # <<>> /\ Head(cleanValue) = "\""
           /\ cleanValue[Len(cleanValue)] = "\""
        THEN UndoubleQuotes(IF Len(cleanValue) = 1 THEN cleanValue
                            ELSE SubSeq(cleanValue, 2, Len(cleanValue) - 1))
        ELSE cleanValue

Digits == <<"0","1","2","3","4","5","6","7","8","9">>

DigitValue(c) == (CHOOSE k \in DOMAIN Digits : Digits[k] = c) - 1

RECURSIVE DigitRunEnd(_, _)
DigitRunEnd(s, i) ==
    IF i <= Len(s) /\ s[i] \in Range(Digits) THEN DigitRunEnd(s, i + 1) ELSE i

RECURSIVE DigitsValue(_)
DigitsValue(s) ==
    IF s = <<>> THEN 0
    ELSE 10 * DigitsValue(SubSeq(s, 1, Len(s) - 1)) + DigitValue(s[Len(s)])

\* parseInt(s, 10) || dflt: NaN and 0 are falsy
ParseIntOr(s, dflt) ==
    LET t == TrimLeft(s)
        signed == t # <<>> /\ Head(t) \in {"+", "-"}
        body == IF signed THEN Tail(t) ELSE t
        e == DigitRunEnd(body, 1)
        v == DigitsValue(SubSeq(body, 1, e - 1))
    IN  IF e = 1 \/ v = 0 THEN dflt
        ELSE IF signed /\ Head(t) = "-" THEN 0 - v ELSE v

StrTrue == <<"t","r","u","e">>
StrId == <<"i","d">>
StrText == <<"t","e","x","t">>
StrTags == <<"t","a","g","s">>
StrCompleted == <<"c","o","m","p","l","e","t","e","d">>
StrCreatedAt == <<"c","r","e","a","t","e","d","a","t">>
StrIsForToday == <<"i","s","f","o","r","t","o","d","a","y">>
StrIsRecurring == <<"i","s","r","e","c","u","r","r","i","n","g">>

\* String(v).toLowerCase() === 'true'
\* Variant of ParseBool that reads a missing value as true.
ParseBoolMissingIsTrue(s) == s = <<>> \/ ToLowerCase(s) = StrTrue

ParseBool(s) == ToLowerCase(s) = StrTrue

-----------------------------------------------------------------------------
(* parseCSVTextToTodos *)

ParseHeaders(headerLine) ==
    LET hs == SplitChar(headerLine, ",")
    IN  [i \in DOMAIN hs |-> ToLowerCase(Trim(hs[i]))]

\* rowData[name] after headers.reduce: the last header of that name wins; a
\* column past the row's values is ''; a name no header carries is undefined,
\* which every use below treats as ''.
RowField(headers, values, name) ==
    LET at == {i \in DOMAIN headers : headers[i] = name}
    IN  IF at = {} THEN <<>>
        ELSE LET i == CHOOSE i \in at : \A j \in at : j <= i
             IN  IF i <= Len(values) THEN values[i] ELSE <<>>

RowValues(line) ==
    LET vs == SplitRow(line) IN [i \in DOMAIN vs |-> CleanValue(vs[i])]

\* taskTagsString.split(';').map(t => t.trim()).filter(Boolean)
ParseTags(taskTagsString) ==
    LET parts == SplitChar(taskTagsString, ";")
        trimmed == [i \in DOMAIN parts |-> Trim(parts[i])]
    IN  SelectSeq(trimmed, LAMBDA t : t # <<>>)

\* One data line read under the header names: what the loop body derives
\* from rowData before it builds the task. A field no header names is
\* undefined and a column past the row's values is '': both read as ''.
\* createdAt is parseInt(rowData.createdat, 10), 0 when that is NaN or 0 (the
\* cases in which the code takes Date.now() instead). id is the id column,
\* which the code never reads.
RowData(headers, rawLine) ==
    LET line == Trim(rawLine)
        values == RowValues(line)
        taskText == RowField(headers, values, StrText)
        taskTagsString == RowField(headers, values, StrTags)
    IN  [blank |-> line = <<>>,
         id |-> ParseIntOr(RowField(headers, values, StrId), 0),
         text |-> taskText,
         tags |-> IF taskTagsString # <<>> THEN ParseTags(taskTagsString)
                  ELSE extractTags(taskText),
         completed |-> ParseBool(RowField(headers, values, StrCompleted)),
         createdAt |-> ParseIntOr(RowField(headers, values, StrCreatedAt), 0),
         isForToday |-> ParseBool(RowField(headers, values, StrIsForToday)),
         isRecurring |-> ParseBool(RowField(headers, values, StrIsRecurring))]

\* The string work of parseCSVTextToTodos: the header names and each line's
\* fields (rows[1] stands for the header line and is not used).
ScanCsv(text) ==
    LET lines == SplitLines(text)
        headers == ParseHeaders(lines[1])
    IN  [headers |-> headers,
         rows |-> [i \in DOMAIN lines |-> RowData(headers, lines[i])]]

\* Variant of RowTask that takes the id of the id column.
RowTaskKeepId(rowData, forceRecurringTemplate, id, dateNow) ==
    IF rowData.blank \/ rowData.text = <<>> THEN <<>>
    ELSE <<[id |-> IF rowData.id # 0 THEN rowData.id ELSE id,
            text |-> rowData.text,
            completed |-> ~forceRecurringTemplate /\ rowData.completed,
            createdAt |-> IF rowData.createdAt # 0 THEN rowData.createdAt
                          ELSE dateNow,
            isForToday |-> ~forceRecurringTemplate /\ rowData.isForToday,
            isRecurring |-> forceRecurringTemplate \/ rowData.isRecurring,
            tags |-> rowData.tags]>>

\* Variant of RowTask that ignores forceRecurringTemplate.
RowTaskKeepFlags(rowData, forceRecurringTemplate, id, dateNow) ==
    IF rowData.blank \/ rowData.text = <<>> THEN <<>>
    ELSE <<[id |-> id, text |-> rowData.text,
            completed |-> rowData.completed,
            createdAt |-> IF rowData.createdAt # 0 THEN rowData.createdAt
                          ELSE dateNow,
            isForToday |-> rowData.isForToday,
            isRecurring |-> rowData.isRecurring,
            tags |-> rowData.tags]>>

\* The task one data line yields, <<>> when the line is skipped.
RowTask(rowData, forceRecurringTemplate, id, dateNow) ==
    LET taskText == rowData.text
        taskTags == rowData.tags
        createdAt == IF rowData.createdAt # 0 THEN rowData.createdAt
                     ELSE dateNow
    IN  IF rowData.blank \/ taskText = <<>> THEN <<>>
        ELSE IF forceRecurringTemplate
             THEN <<[id |-> id, text |-> taskText, completed |-> FALSE,
                     createdAt |-> createdAt, isForToday |-> FALSE,
                     isRecurring |-> TRUE, tags |-> taskTags]>>
             ELSE <<[id |-> id, text |-> taskText,
                     completed |-> rowData.completed,
                     createdAt |-> createdAt,
                     isForToday |-> rowData.isForToday,
                     isRecurring |-> rowData.isRecurring,
                     tags |-> taskTags]>>

\* Variant of ParseRows that stops at the first line it would skip.
RECURSIVE ParseRowsStopAtSkipped(_, _, _, _, _)
ParseRowsStopAtSkipped(rows, i, forceRecurringTemplate, id, clock) ==
    IF i > Len(rows) THEN <<>>
    ELSE LET task == RowTask(rows[i], forceRecurringTemplate, id, clock[i])
         IN  IF task = <<>> THEN <<>>
             ELSE task \o ParseRowsStopAtSkipped(rows, i + 1,
                                                 forceRecurringTemplate,
                                                 id + 1, clock)

\* The loop over lines[1..]: each pushed task takes the next id; clock[i] is
\* what Date.now() returns while line i is processed.
RECURSIVE ParseRows(_, _, _, _, _)
ParseRows(rows, i, forceRecurringTemplate, id, clock) ==
    IF i > Len(rows) THEN <<>>
    ELSE LET task == RowTask(rows[i], forceRecurringTemplate, id, clock[i])
         IN  task \o ParseRows(rows, i + 1, forceRecurringTemplate,
                               id + Len(task), clock)

\* Variant of BuildTodos that does not look for the text column.
BuildTodosNoHeaderCheck(scanned, forceRecurringTemplate, firstId, clock) ==
    [error |-> FALSE,
     tasks |-> ParseRows(scanned.rows, 2, forceRecurringTemplate, firstId,
                         clock)]

\* From the scanned text: [error |-> TRUE, ...] or the importedTasks.
BuildTodos(scanned, forceRecurringTemplate, firstId, clock) ==
    IF StrText \notin Range(scanned.headers)
    THEN [error |-> TRUE, tasks |-> <<>>]
    ELSE [error |-> FALSE,
          tasks |-> ParseRows(scanned.rows, 2, forceRecurringTemplate,
                              firstId, clock)]

-----------------------------------------------------------------------------
(* Persistence: localStorage['todos'] *)

NoTag == <<>>

\* Variant of saveTodos that stores an empty array.
saveTodosEmpty(list) == [kind |-> "array", items |-> <<>>]

\* useEffect(() => localStorage.setItem('todos', JSON.stringify(todos)), [todos])
saveTodos(list) == [kind |-> "array", items |-> list]

RequiredFields == {"id", "text", "completed", "createdAt"}

LoadedTodo(todo) ==
    [id |-> todo.id, text |-> todo.text, completed |-> todo.completed,
     createdAt |-> todo.createdAt,
     isForToday |-> IF "isForToday" \in DOMAIN todo THEN todo.isForToday ELSE FALSE,
     isRecurring |-> IF "isRecurring" \in DOMAIN todo THEN todo.isRecurring ELSE FALSE,
     tags |-> IF "tags" \in DOMAIN todo THEN todo.tags ELSE extractTags(todo.text)]

\* The useState initializer. It runs in App's first statement, before the
\* const extractTags of line 44 is initialized: a todo without a tags array
\* makes the map callback read extractTags in its temporal dead zone, and the
\* ReferenceError is caught by the catch of line 27, so [] is returned.
loadTodos(saved) ==
    IF saved.kind # "array" THEN <<>>
    ELSE IF \E i \in DOMAIN saved.items :
                ~(RequiredFields \subseteq DOMAIN saved.items[i])
         THEN <<>>
         ELSE IF \E i \in DOMAIN saved.items : "tags" \notin DOMAIN saved.items[i]
              THEN <<>>
              ELSE [i \in DOMAIN saved.items |-> LoadedTodo(saved.items[i])]

\* What localStorage may hold at startup.
SnapAbsent == [kind |-> "absent", items |-> <<>>]

SnapInvalid == [kind |-> "invalid", items |-> <<>>]

\* A snapshot of a version without isForToday, isRecurring and tags.
SnapLegacy ==
    [kind |-> "array",
     items |-> <<[id |-> 1, text |-> TxtTagYX, completed |-> FALSE,
                  createdAt |-> 1]>>]

\* A recurring today task with explicit tags, and a task without the flags.
SnapFull ==
    [kind |-> "array",
     items |-> <<[id |-> 1, text |-> TxtPlain, completed |-> TRUE,
                  createdAt |-> 2, isForToday |-> TRUE, isRecurring |-> TRUE,
                  tags |-> << <<"z">> >>],
                 [id |-> 2, text |-> TxtTagYX, completed |-> FALSE,
                  createdAt |-> 1, tags |-> << <<"y">>, <<"x">> >>]>>]

Snapshots == {SnapAbsent, SnapInvalid, SnapLegacy, SnapFull}

\* The ids of a snapshot were handed out in an earlier session.
StoredIdCount(saved) == Len(saved.items)

-----------------------------------------------------------------------------
(* The CSV files the user may pick *)

\* two rows: a completed task with both flags set, an explicit tag and id 1,
\* and a completed Template without tags
FileAll ==
    <<"i","d",",","t","e","x","t",",","c","o","m","p","l","e","t","e","d",
      ",","c","r","e","a","t","e","d","A","t",",","i","s","F","o","r","T",
      "o","d","a","y",",","i","s","R","e","c","u","r","r","i","n","g",",",
      "t","a","g","s","\n","1",",","a",",","T","R","U","E",",","1",",","t",
      "r","u","e",",","t","r","u","e",",","z","\n","2",",","a",",","t","r",
      "u","e",",","2",",","F","A","L","S","E",",","T","r","u","e",",","\n">>

\* two valid rows, a blank line and a row without text; no createdAt column
FileRows ==
    <<"T","e","x","t"," ",","," ","t","a","g","s","\r","\n","\"","#","y",
      " ","#","x","#","y","\"",",","\n","\n",",","q","\n","a",",","\"","q",
      ";"," ","z","\"">>

\* no text column
FileNoText ==
    <<"i","d",",","c","o","m","p","l","e","t","e","d","\n","1",",","t","r",
      "u","e">>

\* a header with a text column and no row
FileHeaderOnly == <<"t","e","x","t","\n">>

FileEmpty == <<>>

Files == {FileAll, FileRows, FileNoText, FileHeaderOnly, FileEmpty}

\* header text,completed and the row Clean desk,true
TxtCleanDesk == <<"C","l","e","a","n"," ","d","e","s","k">>

FileCleanDesk ==
    <<"t","e","x","t",",","c","o","m","p","l","e","t","e","d","\n">>
        \o TxtCleanDesk \o <<",","t","r","u","e">>

\* header text and one row, the quoted text " #y" with its leading blank
FilePadded == <<"t","e","x","t","\n","\""," ","#","y","\"">>

\* The files picked in the codec specification.
CodecFiles == {FileCleanDesk, FileRows, FilePadded}

\* The scan of each of the model's files, computed once.
ScannedFiles == [text \in Files \cup CodecFiles |-> ScanCsv(text)]

parseCSVTextToTodos(text, forceRecurringTemplate, firstId, clock) ==
    BuildTodos(IF text \in DOMAIN ScannedFiles THEN ScannedFiles[text]
               ELSE ScanCsv(text),
               forceRecurringTemplate, firstId, clock)

\* The number of lines of a file: one Date.now() may be read per line.
LineCount(text) ==
    Len((IF text \in DOMAIN ScannedFiles THEN ScannedFiles[text]
               ELSE ScanCsv(text)).rows)

\* An id no task carries: ids are compared by equality only, so one stands for
\* every unknown id (never allocated, or deleted).
UnknownId == 0

\* The ids a caller of the store may pass.
CallIds == IdsOf(todos) \cup {UnknownId}

\* The values Date.now() may return while the n lines of a file are processed.
Clocks(n) ==
    {c \in [1..n -> now..MaxTime] : \A i \in 1..(n - 1) : c[i] <= c[i + 1]}

-----------------------------------------------------------------------------
(* The CSV export *)

\* String(n) of a non-negative integer
RECURSIVE NatToString(_)
NatToString(n) ==
    IF n < 10 THEN <<Digits[n + 1]>>
    ELSE NatToString(n \div 10) \o <<Digits[(n % 10) + 1]>>

\* String(b) of a boolean
BoolToString(b) ==
    IF b THEN <<"t","r","u","e">> ELSE <<"f","a","l","s","e">>

\* parts.join(sep)
RECURSIVE Join(_, _)
Join(parts, sep) ==
    IF parts = <<>> THEN <<>>
    ELSE IF Len(parts) = 1 THEN parts[1]
    ELSE parts[1] \o sep \o Join(Tail(parts), sep)

\* stringField.replace(/"/g, '""')
RECURSIVE DoubleQuotes(_)
DoubleQuotes(s) ==
    IF s = <<>> THEN <<>>
    ELSE (IF Head(s) = "\"" THEN <<"\"", "\"">> ELSE <<Head(s)>>)
         \o DoubleQuotes(Tail(s))

\* Variant of escapeCSVField that never quotes.
escapeCSVFieldPlain(stringField) == stringField

escapeCSVField(stringField) ==
    IF Range(stringField) \cap {",", "\"", "\n"} # {}
    THEN <<"\"">> \o DoubleQuotes(stringField) \o <<"\"">>
    ELSE stringField

ExportHeaders ==
    <<StrId, StrText, StrCompleted, <<"c","r","e","a","t","e","d","A","t">>,
      <<"i","s","F","o","r","T","o","d","a","y">>,
      <<"i","s","R","e","c","u","r","r","i","n","g">>, StrTags>>

\* One row of the export: the fields of todo under ExportHeaders, the tags
\* joined by ';'.
ExportRow(todo) ==
    Join(<<escapeCSVField(NatToString(todo.id)),
           escapeCSVField(todo.text),
           escapeCSVField(BoolToString(todo.completed)),
           escapeCSVField(NatToString(todo.createdAt)),
           escapeCSVField(BoolToString(todo.isForToday)),
           escapeCSVField(BoolToString(todo.isRecurring)),
           escapeCSVField(Join(todo.tags, <<";">>))>>, <<",">>)

\* csvString of commonCSVExport
commonCSVExport(tasksToExport) ==
    Join(<<Join(ExportHeaders, <<",">>)>>
         \o [i \in DOMAIN tasksToExport |-> ExportRow(tasksToExport[i])],
         <<"\n">>)

-----------------------------------------------------------------------------
(* The store's operations, called with any text and any id *)

AddTodo(text) ==
    /\ pc = "ready"
    /\ nextId <= MaxIds
    /\ \E t \in now..MaxTime :
          /\ now' = t
          /\ todos' = addTodo(todos, NewTodo(nextId, text, t))
    /\ nextId' = nextId + 1
    /\ storage' = saveTodos(todos')
    /\ UNCHANGED <<pc, activeTagFilter, reads, download>>

ToggleComplete(id) ==
    /\ pc = "ready"
    /\ todos' = toggleComplete(todos, id)
    /\ storage' = saveTodos(todos')
    /\ UNCHANGED <<pc, nextId, now, activeTagFilter, reads, download>>

DeleteTodo(id) ==
    /\ pc = "ready"
    /\ todos' = deleteTodo(todos, id)
    /\ storage' = saveTodos(todos')
    /\ UNCHANGED <<pc, nextId, now, activeTagFilter, reads, download>>

\* crypto.randomUUID() and Date.now() are called in the template branch only.
ToggleIsForToday(id) ==
    /\ pc = "ready"
    /\ LET k == FindIndex(todos, id)
       IN  IF k # 0 /\ IsTemplate(todos[k])
           THEN /\ nextId <= MaxIds
                /\ \E t \in now..MaxTime :
                      /\ now' = t
                      /\ todos' = toggleIsForToday(todos, id, nextId, t)
                /\ nextId' = nextId + 1
           ELSE /\ todos' = toggleIsForToday(todos, id, nextId, now)
                /\ UNCHANGED <<nextId, now>>
    /\ storage' = saveTodos(todos')
    /\ UNCHANGED <<pc, activeTagFilter, reads, download>>

EditTodo(id, newText) ==
    /\ pc = "ready"
    /\ todos' = editTodo(todos, id, newText)
    /\ storage' = saveTodos(todos')
    /\ UNCHANGED <<pc, nextId, now, activeTagFilter, reads, download>>

ToggleIsRecurring(id) ==
    /\ pc = "ready"
    /\ todos' = toggleIsRecurring(todos, id)
    /\ storage' = saveTodos(todos')
    /\ UNCHANGED <<pc, nextId, now, activeTagFilter, reads, download>>

StoreNext ==
    \/ \E text \in Texts : AddTodo(text)
    \/ \E id \in CallIds : ToggleComplete(id)
    \/ \E id \in CallIds : DeleteTodo(id)
    \/ \E id \in CallIds : ToggleIsForToday(id)
    \/ \E id \in CallIds, text \in Texts : EditTodo(id, text)
    \/ \E id \in CallIds : ToggleIsRecurring(id)

\* The store alone, from the empty collection.
StoreInit ==
    /\ pc = "ready"
    /\ storage = saveTodos(<<>>)
    /\ todos = <<>>
    /\ nextId = 1
    /\ now = 1
    /\ activeTagFilter = NoTag
    /\ reads = <<>>
    /\ download = <<>>

SpecStore == StoreInit /\ [][StoreNext]_vars

-----------------------------------------------------------------------------
(* Startup and the CSV imports *)

\* The first render: the useState initializer, then the effect that saves.
Load ==
    /\ pc = "boot"
    /\ pc' = "ready"
    /\ todos' = loadTodos(storage)
    /\ storage' = saveTodos(todos')
    /\ UNCHANGED <<nextId, now, activeTagFilter, reads, download>>

\* Variant of importReplace that keeps the previous tasks.
importReplaceKeepPrev(prev, result) == prev \o result

\* setTodos(result)
importReplace(prev, result) == result

\* Variant of importMerge that puts the imported tasks first.
importMergeAtHead(prev, result) == result \o prev

\* setTodos(prevTodos => [...prevTodos, ...result])
importMerge(prev, result) == prev \o result

\* The body of reader.onload, the file holding text: nothing changes when the
\* text is empty or the header lacks text (an alert is shown).
OnLoad(forceRecurringTemplate, text) ==
    IF text = <<>>
    THEN UNCHANGED <<storage, todos, nextId, now>>
    ELSE \E clock \in Clocks(LineCount(text)) :
            LET result ==
                    parseCSVTextToTodos(text, forceRecurringTemplate, nextId, clock)
            IN  IF result.error
                THEN UNCHANGED <<storage, todos, nextId, now>>
                ELSE /\ nextId + Len(result.tasks) <= MaxIds + 1
                     /\ todos' = IF forceRecurringTemplate
                                 THEN importMerge(todos, result.tasks)
                                 ELSE importReplace(todos, result.tasks)
                     /\ nextId' = nextId + Len(result.tasks)
                     /\ now' = clock[Len(clock)]
                     /\ storage' = saveTodos(todos')

\* handleImportCSV (forceRecurringTemplate FALSE) or handleImportRecurringCSV
\* (TRUE) with a file picked, the read completing before the next event.
ImportCSV(forceRecurringTemplate, text) ==
    /\ pc = "ready"
    /\ OnLoad(forceRecurringTemplate, text)
    /\ UNCHANGED <<pc, activeTagFilter, reads, download>>

ImportNext == \E force \in BOOLEAN, text \in Files : ImportCSV(force, text)

\* handleExportCSV: the download holds every task.
ExportCSV ==
    /\ pc = "ready"
    /\ download' = commonCSVExport(todos)
    /\ UNCHANGED <<pc, storage, todos, nextId, now, activeTagFilter, reads>>

\* handleExportRecurringCSV: the download holds the Templates.
ExportRecurringCSV ==
    /\ pc = "ready"
    /\ download' = commonCSVExport(SelectSeq(todos, IsTemplate))
    /\ UNCHANGED <<pc, storage, todos, nextId, now, activeTagFilter, reads>>

\* The same handlers with the read in flight: reader.readAsText(file) ...
StartRead(forceRecurringTemplate) ==
    /\ pc = "ready"
    /\ Len(reads) < MaxReads
    /\ reads' = Append(reads, forceRecurringTemplate)
    /\ UNCHANGED <<pc, storage, todos, nextId, now, activeTagFilter, download>>

\* Variant of RemoveAt that removes the oldest read.
RemoveOldest(s, k) == SubSeq(s, 2, Len(s))

\* The reads in flight but the k-th.
RemoveAt(s, k) == SubSeq(s, 1, k - 1) \o SubSeq(s, k + 1, Len(s))

\* ... reader.onload of the k-th read in flight, the file holding text ...
CompleteRead(k, text) ==
    /\ pc = "ready"
    /\ k \in DOMAIN reads
    /\ reads' = RemoveAt(reads, k)
    /\ OnLoad(reads[k], text)
    /\ UNCHANGED <<pc, activeTagFilter, download>>

\* Variant of FailRead that empties the collection.
FailReadClears(k) ==
    /\ pc = "ready"
    /\ k \in DOMAIN reads
    /\ reads' = RemoveAt(reads, k)
    /\ todos' = <<>>
    /\ storage' = saveTodos(todos')
    /\ UNCHANGED <<pc, nextId, now, activeTagFilter, download>>

\* ... or reader.onerror of it.
FailRead(k) ==
    /\ pc = "ready"
    /\ k \in DOMAIN reads
    /\ reads' = RemoveAt(reads, k)
    /\ UNCHANGED <<pc, storage, todos, nextId, now, activeTagFilter, download>>

ReadNext ==
    \/ \E force \in BOOLEAN : StartRead(force)
    \/ \E k \in 1..MaxReads, text \in Files : CompleteRead(k, text)
    \/ \E k \in 1..MaxReads : FailRead(k)

\* The application: startup, the store's operations and the imports.
Init ==
    /\ pc = "boot"
    /\ storage \in Snapshots
    /\ todos = <<>>
    /\ nextId = StoredIdCount(storage) + 1
    /\ now = 1
    /\ activeTagFilter = NoTag
    /\ reads = <<>>
    /\ download = <<>>

Next ==
    \/ Load
    \/ StoreNext
    \/ ImportNext

Spec == Init /\ [][Next]_vars

\* The CSV codec: collections of tasks whose texts hold a comma or a double
\* quote, exported and imported again, and hand-written files.
TxtComma == <<"b", ",", " ", "c">>
TxtQuote == <<"a", "\"", "b">>
CodecTexts == {TxtPlain, TxtComma, TxtQuote}

\* The flags and tags a task of the codec's collections carries: a completed
\* task for today without tags, or a Template with two tags.
CodecProfiles ==
    {[completed |-> TRUE, isForToday |-> TRUE, isRecurring |-> FALSE,
      tags |-> <<>>],
     [completed |-> FALSE, isForToday |-> FALSE, isRecurring |-> TRUE,
      tags |-> << <<"q">>, <<"z">> >>]}

CodecTasks ==
    {[text |-> t, completed |-> f.completed, isForToday |-> f.isForToday,
      isRecurring |-> f.isRecurring, tags |-> f.tags] :
        t \in CodecTexts, f \in CodecProfiles}

\* The collections of 1..MaxCodecLen such tasks, with ids 1, 2, ... and
\* createdAt 1.
CodecCollections ==
    UNION {{[i \in 1..n |->
                [id |-> i, text |-> c[i].text, completed |-> c[i].completed,
                 createdAt |-> 1, isForToday |-> c[i].isForToday,
                 isRecurring |-> c[i].isRecurring, tags |-> c[i].tags]] :
            c \in [1..n -> CodecTasks]} : n \in 1..MaxCodecLen}

CodecInit ==
    /\ pc = "ready"
    /\ todos \in CodecCollections
    /\ storage = saveTodos(todos)
    /\ nextId = Len(todos) + 1
    /\ now = 1
    /\ activeTagFilter = NoTag
    /\ reads = <<>>
    /\ download = <<>>

CodecNext ==
    \/ ExportCSV
    \/ ExportRecurringCSV
    \/ \E force \in BOOLEAN : download # <<>> /\ ImportCSV(force, download)
    \/ \E force \in BOOLEAN, text \in CodecFiles : ImportCSV(force, text)

SpecCodec == CodecInit /\ [][CodecNext]_vars

\* A file picked while up to MaxPending reads may be in flight.
StartReadPending(forceRecurringTemplate) ==
    /\ pc = "ready"
    /\ Len(reads) < MaxPending
    /\ reads' = Append(reads, forceRecurringTemplate)
    /\ UNCHANGED <<pc, storage, todos, nextId, now, activeTagFilter, download>>

\* Several imports in flight, completing in any order, between additions and
\* deletions of tasks.
PendingNext ==
    \/ Load
    \/ \E text \in Texts : AddTodo(text)
    \/ \E id \in CallIds : DeleteTodo(id)
    \/ \E force \in BOOLEAN : StartReadPending(force)
    \/ \E k \in 1..MaxPending, text \in Files : CompleteRead(k, text)
    \/ \E k \in 1..MaxPending : FailRead(k)

SpecPending == Init /\ [][PendingNext]_vars

\* The application with the file reads in flight.
AsyncNext ==
    \/ Load
    \/ StoreNext
    \/ ReadNext

SpecAsync == Init /\ [][AsyncNext]_vars

-----------------------------------------------------------------------------
(* The views App derives and the items TodoList renders *)

\* Array.prototype.sort is stable: an element comes after those the comparator
\* puts before it and after the earlier elements it ties with. before[i][j]
\* says that the comparator is negative for (list[i], list[j]).
StableSort(list, before) ==
    LET rank(i) == 1 + Cardinality({j \in DOMAIN list :
                          \/ before[j][i]
                          \/ (~before[i][j] /\ j < i)})
    IN  [k \in DOMAIN list |-> list[CHOOSE i \in DOMAIN list : rank(i) = k]]

\* Variant of CompareTodos that puts the oldest task first.
CompareTodosOldestFirst(a, b) ==
    IF a.completed # b.completed THEN ~a.completed
    ELSE a.createdAt - b.createdAt < 0

\* The comparator of sortedTodos is negative for (a, b).
CompareTodos(a, b) ==
    IF a.completed # b.completed THEN ~a.completed
    ELSE b.createdAt - a.createdAt < 0

sortedTodos ==
    StableSort(todos, [i \in DOMAIN todos |-> [j \in DOMAIN todos |->
                          CompareTodos(todos[i], todos[j])]])

filteredByTagTodos ==
    IF activeTagFilter = NoTag THEN sortedTodos
    ELSE SelectSeq(sortedTodos, LAMBDA todo : activeTagFilter \in Range(todo.tags))

todayTodos == SelectSeq(filteredByTagTodos, LAMBDA todo : todo.isForToday)

otherTodos == SelectSeq(filteredByTagTodos, LAMBDA todo : ~todo.isForToday)

\* The tags of uniqueTags (their order is not modelled).
uniqueTags == UNION {Range(todos[i].tags) : i \in DOMAIN todos}

\* The characters of the model in the order of their UTF-16 code units.
CodeUnitOrder ==
    <<" ", "\"", "#", "+", ",", "-">> \o Digits \o <<";">> \o UpperLetters
        \o <<"_">> \o LowerLetters

CodeUnit(c) == CHOOSE k \in DOMAIN CodeUnitOrder : CodeUnitOrder[k] = c

\* a < b for strings: the default comparison of Array.prototype.sort.
RECURSIVE StringLess(_, _)
StringLess(a, b) ==
    IF b = <<>> THEN FALSE
    ELSE IF a = <<>> THEN TRUE
    ELSE IF Head(a) = Head(b) THEN StringLess(Tail(a), Tail(b))
    ELSE CodeUnit(Head(a)) < CodeUnit(Head(b))

\* Array.from(allTags): the tags of every task, in the order they were first
\* added to the Set.
AllTags ==
    LET added == Join([i \in DOMAIN todos |-> todos[i].tags], <<>>)
        idx == [i \in DOMAIN added |-> i]
        firsts == SelectSeq(idx, LAMBDA i :
                     \A j \in 1..(i - 1) : added[j] # added[i])
    IN  [k \in DOMAIN firsts |-> added[firsts[k]]]

\* Variant of uniqueTagsList that leaves the tags in the order of the Set.
uniqueTagsUnsorted == AllTags

\* uniqueTags as the filter panel lists it: Array.from(allTags).sort()
uniqueTagsList ==
    LET allTags == AllTags
    IN  StableSort(allTags, [i \in DOMAIN allTags |-> [j \in DOMAIN allTags |->
                               StringLess(allTags[i], allTags[j])]])

\* groupedCompletedMap.values(): one group per text, in the order of the first
\* completed task of each text.
GroupCompleted(completedTasks) ==
    LET idx == [i \in DOMAIN completedTasks |-> i]
        firsts == SelectSeq(idx, LAMBDA i :
                     \A j \in 1..(i - 1) :
                        completedTasks[j].text # completedTasks[i].text)
        members(i) == SelectSeq(completedTasks, LAMBDA task :
                         task.text = completedTasks[i].text)
    IN  [g \in DOMAIN firsts |->
            LET same == members(firsts[g])
            IN  [representativeTodo |-> completedTasks[firsts[g]],
                 instanceIds |-> [m \in DOMAIN same |-> same[m].id],
                 completionCount |-> Len(same),
                 firstCompletedAt |-> completedTasks[firsts[g]].createdAt]]

\* Variant of CompareGroups that puts the oldest group first.
CompareGroupsOldestFirst(a, b) == a.firstCompletedAt - b.firstCompletedAt < 0

\* The comparator of sortedGroupedCompletedTasks is negative for (a, b).
CompareGroups(a, b) == b.firstCompletedAt - a.firstCompletedAt < 0

sortedGroupedCompletedTasks(list) ==
    LET groups == GroupCompleted(SelectSeq(list, LAMBDA todo : todo.completed))
    IN  StableSort(groups, [i \in DOMAIN groups |-> [j \in DOMAIN groups |->
                               CompareGroups(groups[i], groups[j])]])

\* One rendered TodoItem: its props, and deleteId, the id its onDeleteTodo
\* passes to the store.
Item(todo, canCompleteTasks, isGroupedCompleted, groupCount, deleteId) ==
    [todo |-> todo, canCompleteTasks |-> canCompleteTasks,
     isGroupedCompleted |-> isGroupedCompleted, groupCount |-> groupCount,
     deleteId |-> deleteId]

\* Variant of TodoListItems whose grouped entry deletes the last instance.
TodoListItemsDeleteLast(list, canCompleteTasks, isTodayFocusList) ==
    IF isTodayFocusList
    THEN LET activeTasks == SelectSeq(list, LAMBDA todo : ~todo.completed)
             groups == sortedGroupedCompletedTasks(list)
         IN  [i \in DOMAIN activeTasks |->
                 Item(activeTasks[i], canCompleteTasks, FALSE, 1,
                      activeTasks[i].id)]
             \o [g \in DOMAIN groups |->
                 Item(groups[g].representativeTodo, canCompleteTasks, TRUE,
                      groups[g].completionCount,
                      groups[g].instanceIds[Len(groups[g].instanceIds)])]
    ELSE [i \in DOMAIN list |->
             Item(list[i], canCompleteTasks, FALSE, 1, list[i].id)]

\* The TodoItems a TodoList renders, in order.
TodoListItems(list, canCompleteTasks, isTodayFocusList) ==
    IF isTodayFocusList
    THEN LET activeTasks == SelectSeq(list, LAMBDA todo : ~todo.completed)
             groups == sortedGroupedCompletedTasks(list)
         IN  [i \in DOMAIN activeTasks |->
                 Item(activeTasks[i], canCompleteTasks, FALSE, 1,
                      activeTasks[i].id)]
             \o [g \in DOMAIN groups |->
                 Item(groups[g].representativeTodo, canCompleteTasks, TRUE,
                      groups[g].completionCount, groups[g].instanceIds[1])]
    ELSE [i \in DOMAIN list |->
             Item(list[i], canCompleteTasks, FALSE, 1, list[i].id)]

\* Today's Focus is rendered with canCompleteTasks={true}, the backlog with
\* canCompleteTasks={false}.
TodayItems == TodoListItems(todayTodos, TRUE, TRUE)

BacklogItems == TodoListItems(otherTodos, FALSE, FALSE)

RenderedItems == Range(TodayItems) \cup Range(BacklogItems)

-----------------------------------------------------------------------------
(* The user's actions on the rendered page *)

\* Variant of handleCheckboxChange that ignores canCompleteTasks.
handleCheckboxChangeAnyList(canCompleteTasks, isGroupedCompleted, isEditing) ==
    ~isEditing

\* TRUE when handleCheckboxChange calls onToggleComplete(todo.id).
handleCheckboxChange(canCompleteTasks, isGroupedCompleted, isEditing) ==
    IF isEditing THEN FALSE
    ELSE IF isGroupedCompleted THEN TRUE
    ELSE canCompleteTasks

\* What the user may type in the add form and in an item's edit field.
InputTexts == Texts \cup {<<" ">>, <<" ", "a", " ">>}

\* AddTodoForm's handleSubmit
SubmitAdd(inputText) ==
    /\ Trim(inputText) # <<>>
    /\ AddTodo(Trim(inputText))

\* A change event on an item's checkbox; isEditing is the item's local state.
ClickCheckbox(item, isEditing) ==
    IF handleCheckboxChange(item.canCompleteTasks, item.isGroupedCompleted,
                            isEditing)
    THEN ToggleComplete(item.todo.id)
    ELSE pc = "ready" /\ UNCHANGED vars

\* handleDelete: a grouped entry's onDeleteTodo passes group.instanceIds[0].
ClickDelete(item) == DeleteTodo(item.deleteId)

\* The star, repeat and edit buttons are rendered for ungrouped items only.
ClickStar(item) ==
    /\ ~item.isGroupedCompleted
    /\ ToggleIsForToday(item.todo.id)

ClickRecurring(item) ==
    /\ ~item.isGroupedCompleted
    /\ ToggleIsRecurring(item.todo.id)

\* handleEdit, typing editText, then handleSave
SaveEdit(item, editText) ==
    /\ ~item.isGroupedCompleted
    /\ LET trimmedText == Trim(editText)
       IN  IF trimmedText # <<>> /\ trimmedText # item.todo.text
           THEN EditTodo(item.todo.id, trimmedText)
           ELSE pc = "ready" /\ UNCHANGED vars

\* A click on a tag rendered in an item's text (renderTextWithTags).
ClickTag(item, tag) ==
    /\ pc = "ready"
    /\ tag \in Range(extractTags(item.todo.text)) \cap Range(item.todo.tags)
    /\ activeTagFilter' = tag
    /\ UNCHANGED <<pc, storage, todos, nextId, now, reads, download>>

\* A click on a tag of the filter panel, rendered when uniqueTags is not empty.
ClickFilterTag(tag) ==
    /\ pc = "ready"
    /\ tag \in uniqueTags
    /\ activeTagFilter' = tag
    /\ UNCHANGED <<pc, storage, todos, nextId, now, reads, download>>

\* "Show All Tasks", inside the filter panel, rendered when a filter is set.
ClearFilter ==
    /\ pc = "ready"
    /\ uniqueTags # {}
    /\ activeTagFilter # NoTag
    /\ activeTagFilter' = NoTag
    /\ UNCHANGED <<pc, storage, todos, nextId, now, reads, download>>

UINext ==
    \/ Load
    \/ \E inputText \in InputTexts : SubmitAdd(inputText)
    \/ \E item \in RenderedItems, isEditing \in BOOLEAN :
          ClickCheckbox(item, isEditing)
    \/ \E item \in RenderedItems : ClickDelete(item)
    \/ \E item \in RenderedItems : ClickStar(item)
    \/ \E item \in RenderedItems : ClickRecurring(item)
    \/ \E item \in RenderedItems, editText \in InputTexts :
          SaveEdit(item, editText)
    \/ \E item \in RenderedItems : \E tag \in Range(item.todo.tags) :
          ClickTag(item, tag)
    \/ \E tag \in uniqueTags : ClickFilterTag(tag)
    \/ ClearFilter
    \/ ImportNext

\* The application driven through its user interface.
SpecUI == Init /\ [][UINext]_vars

-----------------------------------------------------------------------------
(* Properties *)

\* The ids of the tasks that are both recurring and for today.
BothFlagIds(list) ==
    {list[i].id : i \in {j \in DOMAIN list :
                             list[j].isRecurring /\ list[j].isForToday}}

\* C1: after any sequence of store operations from the empty collection, no
\* Template (isRecurring and not isForToday) has completed = true.
C1_NoTemplateIsCompleted ==
    \A i \in DOMAIN todos : IsTemplate(todos[i]) => ~todos[i].completed

\* C2, as stated: in every reachable state no task is both recurring and for
\* today.
C2_NoTaskRecurringAndForToday == BothFlagIds(todos) = {}

\* C2, as the code has it: a store operation or a recurring-merge import never
\* makes a task both recurring and for today (the tasks with both flags after
\* the step had them before it); a replace-all import and the snapshot load
\* keep the flags they read.
C2_StoreAndMergeAddNoBothFlags ==
    [][(StoreNext \/ \E text \in Files : ImportCSV(TRUE, text))
          => BothFlagIds(todos') \subseteq BothFlagIds(todos)]_vars

\* A task with both flags has entered the collection, and a Template was
\* created after it.
C2_Witness ==
    \E i, j \in DOMAIN todos :
        /\ todos[i].isRecurring /\ todos[i].isForToday
        /\ IsTemplate(todos[j])
        /\ todos[j].id > todos[i].id

\* C3: toggleIsForToday on a Template leaves every existing task unchanged and
\* appends exactly one new task, whose id no existing task has, with the
\* template's text and tags, completed = false, isForToday = true and
\* isRecurring = false.
C3_InstantiationAppendsOneInstance ==
    \A k \in DOMAIN todos : \A t \in now..MaxTime :
        IsTemplate(todos[k]) =>
            LET after == toggleIsForToday(todos, todos[k].id, nextId, t)
                new == after[Len(after)]
            IN  /\ Len(after) = Len(todos) + 1
                /\ SubSeq(after, 1, Len(todos)) = todos
                /\ new.id \notin IdsOf(todos)
                /\ new.text = todos[k].text
                /\ new.tags = todos[k].tags
                /\ ~new.completed
                /\ new.isForToday
                /\ ~new.isRecurring

\* The newest task is the instance of a Template whose tags are not those of
\* its text, and a third task is in the collection.
C3_Witness ==
    /\ Len(todos) >= 3
    /\ LET new == todos[Len(todos)]
       IN  /\ new.id = nextId - 1
           /\ new.isForToday /\ ~new.isRecurring /\ ~new.completed
           /\ new.tags # extractTags(new.text)
           /\ \E k \in 1..(Len(todos) - 1) :
                 /\ IsTemplate(todos[k])
                 /\ todos[k].text = new.text
                 /\ todos[k].tags = new.tags

\* C4: toggleIsRecurring on a task that is not recurring makes it recurring
\* with isForToday = false, whatever isForToday was; on a recurring task it
\* makes it not recurring and keeps isForToday.
C4_ToggleIsRecurringForcesOutOfToday ==
    \A k \in DOMAIN todos :
        LET after == toggleIsRecurring(todos, todos[k].id)
        IN  /\ DOMAIN after = DOMAIN todos
            /\ after[k].isRecurring = ~todos[k].isRecurring
            /\ ~todos[k].isRecurring => ~after[k].isForToday
            /\ todos[k].isRecurring =>
                  after[k].isForToday = todos[k].isForToday

\* A today task that toggleIsRecurring turns into a Template, next to a
\* recurring today task that it leaves for today.
C4_Witness ==
    \E i, j \in DOMAIN todos :
        /\ ~todos[i].isRecurring /\ todos[i].isForToday
        /\ IsTemplate(toggleIsRecurring(todos, todos[i].id)[i])
        /\ todos[j].isRecurring /\ todos[j].isForToday
        /\ toggleIsRecurring(todos, todos[j].id)[j].isForToday
        /\ ~toggleIsRecurring(todos, todos[j].id)[j].isRecurring

\* C5: toggleComplete on a Template sets completed = false and
\* isForToday = false whatever completed was; on any other task it flips
\* completed and changes nothing else.
C5_ToggleCompleteResetsTemplates ==
    \A k \in DOMAIN todos :
        LET after == toggleComplete(todos, todos[k].id)
        IN  /\ DOMAIN after = DOMAIN todos
            /\ IF IsTemplate(todos[k])
               THEN ~after[k].completed /\ ~after[k].isForToday
               ELSE after[k] =
                       [todos[k] EXCEPT !.completed = ~todos[k].completed]

\* A completed Template that toggleComplete resets, next to a completed
\* recurring today task that it marks as pending.
C5_Witness ==
    \E i, j \in DOMAIN todos :
        /\ IsTemplate(todos[i]) /\ todos[i].completed
        /\ ~toggleComplete(todos, todos[i].id)[i].completed
        /\ todos[j].isRecurring /\ todos[j].isForToday /\ todos[j].completed
        /\ ~toggleComplete(todos, todos[j].id)[j].completed

\* The checkbox of a rendered item dispatches toggleComplete only when the
\* item's task is for today.
C6_CheckboxDispatchesForTodayOnly ==
    \A item \in RenderedItems : \A isEditing \in BOOLEAN :
        handleCheckboxChange(item.canCompleteTasks, item.isGroupedCompleted,
                             isEditing)
            => item.todo.isForToday

\* A task whose completed flag a step changes was for today before the step.
C6_CompletedChangesForTodayOnly ==
    \A i \in DOMAIN todos : \A j \in DOMAIN todos' :
        (todos'[j].id = todos[i].id /\ todos'[j].completed # todos[i].completed)
            => todos[i].isForToday

\* C6: through the user interface toggleComplete is dispatched only for tasks
\* with isForToday = true (so never for a Template), and no user action
\* changes the completed flag of a task with isForToday = false.
C6_UICompletesTodayTasksOnly ==
    /\ []C6_CheckboxDispatchesForTodayOnly
    /\ [][C6_CompletedChangesForTodayOnly]_vars

\* The backlog shows a Template and a completed task (whose checkbox is not
\* disabled), and Today's Focus shows a task whose checkbox dispatches.
C6_Witness ==
    /\ \E item \in Range(BacklogItems) : IsTemplate(item.todo)
    /\ \E item \in Range(BacklogItems) : item.todo.completed
    /\ \E item \in Range(TodayItems) :
          handleCheckboxChange(item.canCompleteTasks,
                               item.isGroupedCompleted, FALSE)

\* C7: after editTodo(id, t) the task has text = t and tags = extractTags(t),
\* whatever its tags were.
C7_EditSetsTextAndExtractedTags ==
    \A k \in DOMAIN todos : \A t \in Texts :
        LET after == editTodo(todos, todos[k].id, t)
        IN  /\ DOMAIN after = DOMAIN todos
            /\ after[k].text = t
            /\ after[k].tags = extractTags(t)

\* A task whose tags are not those of its text (explicit imported tags), which
\* an edit to the same text replaces.
C7_Witness ==
    \E k \in DOMAIN todos :
        /\ todos[k].tags # extractTags(todos[k].text)
        /\ todos[k].tags # <<>>
        /\ editTodo(todos, todos[k].id, todos[k].text)[k].tags # todos[k].tags

\* The ids no task of the collection carries: never allocated, or deleted.
UnknownIds == (0..MaxIds) \ IdsOf(todos)

\* C8: edit, delete, toggleComplete, toggleIsForToday and toggleIsRecurring
\* called with an id no task carries return the collection as it was.
C8_UnknownIdIsNoOp ==
    \A id \in UnknownIds :
        /\ toggleComplete(todos, id) = todos
        /\ deleteTodo(todos, id) = todos
        /\ \A t \in now..MaxTime : toggleIsForToday(todos, id, nextId, t) = todos
        /\ \A text \in Texts : editTodo(todos, id, text) = todos
        /\ toggleIsRecurring(todos, id) = todos

\* A collection with a Template and another task, and the id of a deleted or
\* replaced task among the unknown ids.
C8_Witness ==
    /\ Len(todos) >= 2
    /\ \E k \in DOMAIN todos : IsTemplate(todos[k])
    /\ \E id \in UnknownIds : id >= 1 /\ id < nextId

\* C9: the ids of the collection are pairwise distinct and were all handed
\* out; a task that enters the collection after startup (add, instantiation,
\* either import) carries an id never handed out before.
C9_IdsDistinctAndFresh ==
    /\ [](\A i, j \in DOMAIN todos :
             /\ i # j => todos[i].id # todos[j].id
             /\ todos[i].id < nextId)
    /\ [][/\ nextId' >= nextId
          /\ pc = "ready" =>
                \A id \in IdsOf(todos') \ IdsOf(todos) :
                    id >= nextId /\ id < nextId']_vars

\* The row of the file whose id column says 1, imported in replace-all mode,
\* carries another id.
C9_Witness ==
    \E i \in DOMAIN todos :
        /\ todos[i].tags = << <<"z">> >>
        /\ todos[i].createdAt = 1
        /\ todos[i].isRecurring /\ todos[i].isForToday /\ todos[i].completed
        /\ todos[i].id > 1

\* C10: addTodo puts one new task at the head, with completed, isForToday and
\* isRecurring false, the tags of its text and an id no existing task has,
\* and the existing tasks follow it unchanged and in the same order.
C10_AddPutsNewTaskAtHead ==
    \A text \in Texts : \A t \in now..MaxTime :
        LET after == addTodo(todos, NewTodo(nextId, text, t))
        IN  /\ Len(after) = Len(todos) + 1
            /\ Tail(after) = todos
            /\ after[1].id \notin IdsOf(todos)
            /\ after[1].text = text
            /\ after[1].tags = extractTags(text)
            /\ ~after[1].completed
            /\ ~after[1].isForToday
            /\ ~after[1].isRecurring

\* The newest task is at the head, a plain task with the tags of its text, and
\* older tasks follow it.
C10_Witness ==
    /\ Len(todos) >= 2
    /\ todos[1].id = nextId - 1
    /\ \A k \in 2..Len(todos) : todos[k].id < todos[1].id
    /\ todos[1].text = TxtTagYX
    /\ todos[1].tags = << <<"y">>, <<"x">> >>
    /\ ~todos[1].completed /\ ~todos[1].isForToday /\ ~todos[1].isRecurring

\* C11, as stated: the task add creates, the task edit changes and the
\* instance toggleIsForToday creates have tags = extractTags(text).
C11_CreatedTasksHaveExtractedTags ==
    /\ \A text \in Texts : \A t \in now..MaxTime :
          addTodo(todos, NewTodo(nextId, text, t))[1].tags = extractTags(text)
    /\ \A k \in DOMAIN todos : \A text \in Texts :
          editTodo(todos, todos[k].id, text)[k].tags = extractTags(text)
    /\ \A k \in DOMAIN todos : \A t \in now..MaxTime :
          IsTemplate(todos[k]) =>
              LET after == toggleIsForToday(todos, todos[k].id, nextId, t)
                  new == after[Len(after)]
              IN  new.tags = extractTags(new.text)

\* C11, as the code has it: after a store operation every task either has
\* tags = extractTags(text) (add, edit) or has the text and the tags of a
\* task of the collection before the operation (itself, unchanged, or the
\* Template it is an instance of); tags that differ from extractTags(text)
\* enter through an import or the snapshot load only.
C11_StoreKeepsOrExtractsTags ==
    [][StoreNext =>
          \A j \in DOMAIN todos' :
              \/ todos'[j].tags = extractTags(todos'[j].text)
              \/ \E i \in DOMAIN todos :
                    /\ todos[i].text = todos'[j].text
                    /\ todos[i].tags = todos'[j].tags]_vars

\* An instance that has the explicit tags of its Template, not those of its
\* text, next to a task whose tags are those of its text.
C11_Witness ==
    /\ \E j \in DOMAIN todos :
          /\ todos[j].tags # <<>>
          /\ todos[j].tags = extractTags(todos[j].text)
    /\ \E i, k \in DOMAIN todos :
          /\ IsTemplate(todos[k])
          /\ todos[i].isForToday /\ ~todos[i].isRecurring
          /\ todos[i].id > todos[k].id
          /\ todos[i].text = todos[k].text
          /\ todos[i].tags = todos[k].tags
          /\ todos[i].tags # extractTags(todos[i].text)

\* The header line of a file names a text column (trimmed, in any case).
HeaderHasText(text) == StrText \in Range(ScannedFiles[text].headers)

\* The data lines of a file that are neither blank nor without a text value.
ValidRows(text) ==
    LET rows == ScannedFiles[text].rows
    IN  SelectSeq([i \in 1..(Len(rows) - 1) |-> rows[i + 1]],
                  LAMBDA r : ~r.blank /\ r.text # <<>>)

\* An import of the file succeeds: the text is not empty and has a text column.
Succeeds(text) == text # <<>> /\ HeaderHasText(text)

\* C12: when the read of a recurring-merge import completes with success, the
\* collection is the one just before the completion, unchanged and in the same
\* order, followed by one new task per valid row of the file (no row is dropped
\* as a duplicate), whatever ran between the start of the read and its end.
C12_MergeAppendsOneTaskPerValidRow ==
    [][\A k \in DOMAIN reads, text \in Files :
          (reads[k] /\ Succeeds(text) /\ CompleteRead(k, text)) =>
              /\ Len(todos') = Len(todos) + Len(ValidRows(text))
              /\ SubSeq(todos', 1, Len(todos)) = todos
              /\ \A j \in 1..Len(ValidRows(text)) :
                    /\ todos'[Len(todos) + j].text = ValidRows(text)[j].text
                    /\ todos'[Len(todos) + j].id \notin IdsOf(todos)]_vars

\* A task added and made recurring while the file was read, then the two rows
\* of the file appended after it: three Templates of the same text.
C12_Witness ==
    /\ Len(todos) = 3
    /\ \A j \in 1..3 : todos[j].text = TxtPlain /\ IsTemplate(todos[j])
    /\ todos[1].tags = <<>> /\ todos[2].tags = << <<"z">> >>
    /\ todos[2].createdAt = 1 /\ todos[3].createdAt = 2
    /\ reads = <<>>

\* C13: every task a recurring-merge import appends is a Template that is not
\* completed: isRecurring is TRUE, isForToday and completed are FALSE, whatever
\* the columns of the file say.
C13_MergedTasksAreFreshTemplates ==
    [][\A j \in (Len(todos) + 1)..Len(todos'), text \in Files :
          ImportCSV(TRUE, text) =>
                  /\ todos'[j].isRecurring
                  /\ ~todos'[j].isForToday
                  /\ ~todos'[j].completed]_vars

\* The two rows of the file with every column, whose completed column is TRUE
\* and whose first isForToday is true, merged into an empty collection.
C13_Witness ==
    /\ Len(todos) = 2
    /\ todos[1].tags = << <<"z">> >> /\ todos[1].createdAt = 1
    /\ todos[2].tags = <<>> /\ todos[2].createdAt = 2
    /\ \A j \in 1..2 : IsTemplate(todos[j]) /\ ~todos[j].completed
    /\ IdsOf(todos) = {1, 2}

\* C14: when the read of a replace-all import completes with success, the
\* collection holds exactly one task per valid row of the file, in the order of
\* the file, and no task and no id of the collection before it, tasks added
\* while the file was read included; a file with a header and no valid row
\* leaves the collection empty.
C14_ReplaceKeepsOnlyTheRows ==
    [][\A k \in DOMAIN reads, text \in Files :
          (~reads[k] /\ Succeeds(text) /\ CompleteRead(k, text)) =>
              /\ Len(todos') = Len(ValidRows(text))
              /\ \A j \in DOMAIN todos' :
                    /\ todos'[j].text = ValidRows(text)[j].text
                    /\ todos'[j].tags = ValidRows(text)[j].tags
              /\ IdsOf(todos') \cap IdsOf(todos) = {}
              /\ Range(todos') \cap Range(todos) = {}
              /\ (ValidRows(text) = <<>> => todos' = <<>>)]_vars

\* The two valid rows of the file with a blank line and a row without text,
\* replacing a collection that held the task of id 1.
C14_Witness ==
    /\ Len(todos) = 2
    /\ todos[1].text = TxtTagYX /\ todos[1].tags = << <<"y">>, <<"x">> >>
    /\ todos[2].text = TxtPlain /\ todos[2].tags = << <<"q">>, <<"z">> >>
    /\ \A j \in 1..2 : ~todos[j].isRecurring /\ ~todos[j].isForToday
    /\ IdsOf(todos) = {2, 3}
    /\ reads = <<>>

\* C15: an import, in either mode, of a file whose header line names no text
\* column reports an error and leaves the collection as it was.
C15_NoTextColumnIsAnError ==
    [][\A force \in BOOLEAN, text \in Files :
          (text # <<>> /\ ~HeaderHasText(text) /\ ImportCSV(force, text)) =>
              /\ todos' = todos
              /\ storage' = storage
              /\ nextId' = nextId
              /\ \A clock \in Clocks(LineCount(text)) :
                    parseCSVTextToTodos(text, force, nextId, clock).error]_vars

\* A collection of two tasks when the file without a text column is picked.
C15_Witness ==
    /\ pc = "ready"
    /\ Len(todos) = 2
    /\ ~HeaderHasText(FileNoText)
    /\ ENABLED ImportCSV(FALSE, FileNoText)
    /\ ENABLED ImportCSV(TRUE, FileNoText)

\* C16: a read that fails, in either mode, leaves the collection as it was,
\* whatever ran before it.
C16_FailedReadChangesNothing ==
    [][\A k \in DOMAIN reads :
          FailRead(k) =>
              /\ todos' = todos
              /\ storage' = storage
              /\ nextId' = nextId
              /\ Len(reads') = Len(reads) - 1]_vars

\* A read in flight over a collection of two tasks.
C16_Witness ==
    /\ reads # <<>>
    /\ Len(todos) = 2
    /\ ENABLED FailRead(1)

\* C17: at startup a stored array of records that all have id, text,
\* completed and createdAt is loaded whole even when a record lacks isForToday,
\* isRecurring or tags: every task is kept, a missing flag is FALSE and missing
\* tags are the tags extracted from the text.
C17_LoadKeepsEveryTaskWithDefaults ==
    [][(/\ Load
        /\ storage.kind = "array"
        /\ \A i \in DOMAIN storage.items :
              RequiredFields \subseteq DOMAIN storage.items[i]) =>
           /\ Len(todos') = Len(storage.items)
           /\ \A i \in DOMAIN storage.items :
                 todos'[i] = LoadedTodo(storage.items[i])]_vars

\* C18: the full export of the collection, imported again in replace-all mode,
\* yields as many tasks in the same order, each with the text, completed,
\* isForToday, isRecurring and set of tags of the exported one (the ids may
\* differ); a text with a comma or a double quote comes back as it was.
C18_ExportThenReplaceImportRoundTrips ==
    pc = "ready" =>
        LET exported == commonCSVExport(todos)
        IN  \A clock \in Clocks(LineCount(exported)) :
                LET result == parseCSVTextToTodos(exported, FALSE, nextId, clock)
                IN  /\ ~result.error
                    /\ Len(result.tasks) = Len(todos)
                    /\ \A i \in DOMAIN todos :
                          /\ result.tasks[i].text = todos[i].text
                          /\ result.tasks[i].completed = todos[i].completed
                          /\ result.tasks[i].isForToday = todos[i].isForToday
                          /\ result.tasks[i].isRecurring = todos[i].isRecurring
                          /\ Range(result.tasks[i].tags) = Range(todos[i].tags)

\* The header line of a file names the column (trimmed, in any case).
HasColumn(text, name) == name \in Range(ScannedFiles[text].headers)

\* C19: a replace-all import of a file whose header names text but lacks some
\* of completed, createdAt, isForToday, isRecurring and tags yields one task per
\* valid row, a missing boolean read as FALSE, a missing createdAt as the time
\* of the import and missing tags as the tags extracted from the text; the file
\* of header text,completed and row Clean desk,true yields exactly one task
\* "Clean desk", completed, neither for today nor recurring, without tags.
C19_MissingColumnsTakeDefaults ==
    [][\A text \in CodecFiles :
          (HeaderHasText(text) /\ ImportCSV(FALSE, text)) =>
              /\ Len(todos') = Len(ValidRows(text))
              /\ \A j \in DOMAIN todos' :
                    LET t == todos'[j] IN
                    /\ t.text = ValidRows(text)[j].text
                    /\ HasColumn(text, StrCompleted) \/ ~t.completed
                    /\ HasColumn(text, StrIsForToday) \/ ~t.isForToday
                    /\ HasColumn(text, StrIsRecurring) \/ ~t.isRecurring
                    /\ HasColumn(text, StrCreatedAt)
                          \/ (now <= t.createdAt /\ t.createdAt <= now')
                    /\ HasColumn(text, StrTags) \/ t.tags = extractTags(t.text)
              /\ text = FileCleanDesk =>
                    todos' = <<[id |-> nextId, text |-> TxtCleanDesk,
                                completed |-> TRUE, createdAt |-> now',
                                isForToday |-> FALSE, isRecurring |-> FALSE,
                                tags |-> <<>>]>>]_vars

\* The one task of the file of header text,completed and row Clean desk,true.
C19_Witness ==
    /\ Len(todos) = 1
    /\ todos[1].text = TxtCleanDesk
    /\ todos[1].completed
    /\ ~todos[1].isForToday /\ ~todos[1].isRecurring
    /\ todos[1].tags = <<>>
    /\ storage = saveTodos(todos)

\* The completed tasks of the today list, in the order of the sorted sequence.
CompletedToday == SelectSeq(todayTodos, LAMBDA todo : todo.completed)

\* C20: the today list shows its completed tasks in groups of equal text: one
\* group per text, whose count is the number of completed today tasks (after
\* the tag filter) of that text, whose representative is the first of them in
\* the sorted sequence, which has the greatest createdAt of them, and whose
\* timestamp is the representative's createdAt; the groups are listed by
\* timestamp, the greatest first.
C20_CompletedTodayTasksGroupByText ==
    LET groups == sortedGroupedCompletedTasks(todayTodos)
        shown(i) == /\ todos[i].completed
                    /\ todos[i].isForToday
                    /\ (activeTagFilter = NoTag
                           \/ activeTagFilter \in Range(todos[i].tags))
    IN  /\ {groups[g].representativeTodo.text : g \in DOMAIN groups}
              = {todos[i].text : i \in {j \in DOMAIN todos : shown(j)}}
        /\ \A g, h \in DOMAIN groups :
              /\ groups[g].representativeTodo.text
                    = groups[h].representativeTodo.text => g = h
              /\ g < h => groups[g].firstCompletedAt >= groups[h].firstCompletedAt
        /\ \A g \in DOMAIN groups :
              LET r == groups[g].representativeTodo
                  same == {i \in DOMAIN CompletedToday :
                              CompletedToday[i].text = r.text}
              IN  /\ groups[g].completionCount
                        = Cardinality({i \in DOMAIN todos :
                              shown(i) /\ todos[i].text = r.text})
                  /\ \E i \in same :
                        /\ r = CompletedToday[i]
                        /\ \A j \in same : i <= j
                  /\ \A j \in same : r.createdAt >= CompletedToday[j].createdAt
                  /\ groups[g].firstCompletedAt = r.createdAt

\* Two completed today tasks of one text created at different times, shown as
\* one group of count 2 with the later time, before a group of another text.
C20_Witness ==
    LET groups == sortedGroupedCompletedTasks(todayTodos)
    IN  /\ Len(groups) = 2
        /\ groups[1].completionCount = 2
        /\ groups[1].firstCompletedAt = 2
        /\ groups[2].completionCount = 1
        /\ groups[2].firstCompletedAt = 1
        /\ \E i \in DOMAIN todos :
              /\ todos[i].text = groups[1].representativeTodo.text
              /\ todos[i].createdAt = 1

\* The groups of the today list whose text is the given one.
GroupsOfText(text) ==
    SelectSeq(sortedGroupedCompletedTasks(todayTodos),
              LAMBDA group : group.representativeTodo.text = text)

\* C21: deleting a grouped completed entry of count n removes exactly one task
\* of the collection, the representative of the group, and no other; in the
\* view computed afterwards the group of that text has count n - 1, and there
\* is no such group when n was 1.
C21_GroupedDeleteRemovesTheRepresentative ==
    [][\A item \in (IF \E i \in DOMAIN todos :
                            todos[i].completed /\ todos[i].isForToday
                     THEN Range(TodayItems) ELSE {}) :
          (item.isGroupedCompleted /\ ClickDelete(item)) =>
              /\ item.todo \in Range(todos)
              /\ Len(todos') = Len(todos) - 1
              /\ todos' = SelectSeq(todos, LAMBDA todo : todo # item.todo)
              /\ IF item.groupCount = 1
                 THEN GroupsOfText(item.todo.text)' = <<>>
                 ELSE /\ Len(GroupsOfText(item.todo.text)') = 1
                      /\ GroupsOfText(item.todo.text)'[1].completionCount
                            = item.groupCount - 1]_vars

\* A grouped entry of count 2 whose deletion leaves a collection one shorter.
C21_Witness ==
    \E item \in Range(TodayItems) :
        /\ item.isGroupedCompleted
        /\ item.groupCount = 2
        /\ item.deleteId = item.todo.id
        /\ Len(deleteTodo(todos, item.deleteId)) = Len(todos) - 1
        /\ ENABLED ClickDelete(item)

\* C22: in the sorted view every task that is not completed precedes every
\* completed task, and among tasks of the same completed value createdAt never
\* increases; the sorted view holds the tasks of the collection, each as many
\* times as the collection does, and the collection keeps its own order.
C22_SortedViewIsOrderedPermutation ==
    /\ Len(sortedTodos) = Len(todos)
    /\ \A i \in DOMAIN todos :
          Cardinality({j \in DOMAIN sortedTodos : sortedTodos[j] = todos[i]})
             = Cardinality({j \in DOMAIN todos : todos[j] = todos[i]})
    /\ \A i, j \in DOMAIN sortedTodos :
          i < j =>
             /\ sortedTodos[i].completed => sortedTodos[j].completed
             /\ sortedTodos[i].completed = sortedTodos[j].completed
                   => sortedTodos[i].createdAt >= sortedTodos[j].createdAt

\* A collection of three tasks in another order than its sorted view: a
\* completed task first, and two tasks that are not completed, the older first.
C22_Witness ==
    /\ Len(todos) = 3
    /\ todos[1].completed /\ ~todos[2].completed /\ ~todos[3].completed
    /\ todos[2].createdAt < todos[3].createdAt
    /\ sortedTodos = <<todos[3], todos[2], todos[1]>>

\* C23: the tags the filter bar lists are exactly the tags carried by a task
\* of the whole collection, each once, in ascending lexicographic order,
\* whatever the active tag filter is.
C23_FilterBarListsEveryTagOnceAscending ==
    LET shown == uniqueTagsList
    IN  /\ Range(shown) = UNION {Range(todos[i].tags) : i \in DOMAIN todos}
        /\ \A i, j \in DOMAIN shown :
              i < j => shown[i] # shown[j] /\ StringLess(shown[i], shown[j])
        /\ Range(shown) = uniqueTags

\* The filter is set to z, which hides the task carrying y then x, and the
\* bar lists x, y, z.
C23_Witness ==
    /\ activeTagFilter = <<"z">>
    /\ uniqueTagsList = << <<"x">>, <<"y">>, <<"z">> >>
    /\ \E i \in DOMAIN todos : todos[i].tags = << <<"y">>, <<"x">> >>

\* C24: each of the six store operations keeps the roles apart: when no task
\* is both recurring and for today before addTodo, editTodo, deleteTodo,
\* toggleComplete, toggleIsForToday or toggleIsRecurring, none is afterwards.
C24_StoreOperationsKeepRolesApart ==
    [][(/\ BothFlagIds(todos) = {}
        /\ \/ \E text \in Texts : AddTodo(text)
           \/ \E id \in CallIds, newText \in Texts : EditTodo(id, newText)
           \/ \E id \in CallIds : DeleteTodo(id)
           \/ \E id \in CallIds : ToggleComplete(id)
           \/ \E id \in CallIds : ToggleIsForToday(id)
           \/ \E id \in CallIds : ToggleIsRecurring(id))
          => BothFlagIds(todos') = {}]_vars

\* No task has both flags, and a task for today is there to be made recurring:
\* toggleIsRecurring moves it to the backlog.
C24_Witness ==
    /\ BothFlagIds(todos) = {}
    /\ \E i \in DOMAIN todos :
          /\ todos[i].isForToday /\ todos[i].completed
          /\ BothFlagIds(toggleIsRecurring(todos, todos[i].id)) = {}
          /\ BothFlagIds(toggleIsForToday(todos, todos[i].id, nextId, now)) = {}
          /\ ENABLED ToggleIsRecurring(todos[i].id)

\* The list after is the list before but for its k-th task, which keeps its
\* id and createdAt.
OnlyTargetChanges(before, after, k) ==
    /\ Len(after) = Len(before)
    /\ \A j \in DOMAIN before : j # k => after[j] = before[j]
    /\ after[k].id = before[k].id
    /\ after[k].createdAt = before[k].createdAt

\* C25: editTodo, toggleComplete, toggleIsRecurring, and toggleIsForToday on a
\* task that is no Template, change the targeted task only: the other tasks,
\* the length and the order of the collection stay, no task is destroyed, the
\* target keeps its id and createdAt; editTodo changes text and tags only.
C25_OnlyTheTargetedTaskChanges ==
    \A k \in DOMAIN todos :
        LET id == todos[k].id IN
        /\ \A t \in Texts :
              LET after == editTodo(todos, id, t)
              IN  /\ OnlyTargetChanges(todos, after, k)
                  /\ after[k].completed = todos[k].completed
                  /\ after[k].isForToday = todos[k].isForToday
                  /\ after[k].isRecurring = todos[k].isRecurring
        /\ OnlyTargetChanges(todos, toggleComplete(todos, id), k)
        /\ OnlyTargetChanges(todos, toggleIsRecurring(todos, id), k)
        /\ ~IsTemplate(todos[k]) =>
              \A newId \in 1..(MaxIds + 1), createdAt \in 1..MaxTime :
                 OnlyTargetChanges(todos,
                                   toggleIsForToday(todos, id, newId, createdAt),
                                   k)

\* Three tasks, the second one completed, for today and no Template: an edit,
\* and each toggle, changes it.
C25_Witness ==
    /\ Len(todos) = 3
    /\ todos[2].completed /\ todos[2].isForToday /\ ~todos[2].isRecurring
    /\ todos[2].text = TxtPlain
    /\ editTodo(todos, todos[2].id, TxtTagYX)[2].tags = << <<"y">>, <<"x">> >>
    /\ ~toggleComplete(todos, todos[2].id)[2].completed
    /\ ~toggleIsForToday(todos, todos[2].id, nextId, now)[2].isForToday
    /\ toggleIsRecurring(todos, todos[2].id)[2].isRecurring

C27_SnapshotFollowsTheCollection ==
    /\ [](pc = "ready" => storage.kind = "array" /\ storage.items = todos)
    /\ [][/\ Load => pc = "boot"
          /\ pc = "ready" => pc' = "ready"
          /\ (pc = "ready" /\ todos' # todos) => storage' # storage]_vars

\* After a recurring-merge import into a collection that was added to, the
\* snapshot holds the three tasks of the collection.
C27_Witness ==
    /\ pc = "ready"
    /\ reads = <<>>
    /\ Len(storage.items) = 3
    /\ storage.items = todos
    /\ ~todos[1].isRecurring
    /\ IsTemplate(todos[3])

\* C28: whenever a tag filter is active, the show-all action that clears it is
\* available to the user, also after every task carrying the tag was deleted,
\* edited or replaced by an import.
C28_ActiveFilterCanBeCleared ==
    (pc = "ready" /\ activeTagFilter # NoTag) => ENABLED ClearFilter

\* C29: an import goes on past the rows it cannot use: a blank line and a row
\* whose text value is empty yield no task and no error, each other row yields
\* one task, so an import brings as many tasks as the file has data rows with
\* a text that is not empty.
C29_ImportSkipsUnusableRows ==
    [][\A force \in BOOLEAN, text \in CodecFiles :
          (Succeeds(text) /\ ImportCSV(force, text)) =>
              LET kept == IF force THEN Len(todos) ELSE 0
              IN  /\ Len(todos') = kept + Len(ValidRows(text))
                  /\ \A j \in 1..Len(ValidRows(text)) :
                        todos'[kept + j].text = ValidRows(text)[j].text
                  /\ \A clock \in Clocks(LineCount(text)) :
                        ~parseCSVTextToTodos(text, force, nextId, clock).error]_vars

\* The file of five data lines, a blank line and a row without text among
\* them, has brought its two Templates.
C29_Witness ==
    /\ Len(ValidRows(FileRows)) = 2
    /\ LineCount(FileRows) = 5
    /\ Len(todos) = 2
    /\ IsTemplate(todos[1]) /\ todos[1].text = TxtTagYX
    /\ IsTemplate(todos[2]) /\ todos[2].text = TxtPlain
    /\ todos[2].tags = << <<"q">>, <<"z">> >>

=============================================================================
